---- MODULE Spec2Model ----
(***************************************************************************)
(* Model of the Topmate booking service: the POST /api/book-topmate-calls  *)
(* handler (src/src/index.ts), BookingService (src/src/services/           *)
(* bookingService.ts), TopmateBrowser (src/unnamed/part_000) and           *)
(* TopmateAPI (src/unnamed/part_003).                                      *)
(*                                                                         *)
(* Every await on an external call (browser, page, HTTP fetch) is one      *)
(* action whose outcome, success or a thrown error, is chosen by \E.       *)
(* Strings are TLA+ strings; Len, SubSeq and \o work on them character by  *)
(* character.                                                              *)
(***************************************************************************)
EXTENDS Integers, Sequences, FiniteSets, TLC

\* ------------------------------------------------------------------ bounds
\* Longest search result list the page returns.
MaxResults == 2
\* Largest num_calls a request asks for.
MaxCalls == 2
\* Most slot elements a booking page shows.
MaxSlots == 2
\* Longest service list of a profile handed to filterCandidateServices alone.
MaxServices == 2
\* Longest search result list of a request that overlaps another.
MaxOverlapResults == 1

\* ----------------------------------------------------------------- strings
\* null / undefined for record-valued variables.
NULL == [null |-> TRUE]

UpperCase == <<"A", "B", "C", "D", "E", "F", "G", "H", "I", "J", "K", "L", "M",
               "N", "O", "P", "Q", "R", "S", "T", "U", "V", "W", "X", "Y", "Z">>
LowerCase == <<"a", "b", "c", "d", "e", "f", "g", "h", "i", "j", "k", "l", "m",
               "n", "o", "p", "q", "r", "s", "t", "u", "v", "w", "x", "y", "z">>

\* One character of String.prototype.toLowerCase.
LowerChar(c) ==
    IF \E i \in 1..Len(UpperCase) : UpperCase[i] = c
    THEN LowerCase[CHOOSE i \in 1..Len(UpperCase) : UpperCase[i] = c]
    ELSE c

RECURSIVE ToLowerCase(_)
\* String.prototype.toLowerCase.
ToLowerCase(s) ==
    IF Len(s) = 0 THEN ""
    ELSE LowerChar(SubSeq(s, 1, 1)) \o ToLowerCase(SubSeq(s, 2, Len(s)))

\* String.prototype.includes: t occurs in s as a contiguous substring.
Includes(s, t) ==
    \/ Len(t) = 0
    \/ \E i \in 1..(Len(s) - Len(t) + 1) : SubSeq(s, i, i + Len(t) - 1) = t

Digits == {"0", "1", "2", "3", "4", "5", "6", "7", "8", "9"}

\* The schema's regex /^\d{2}:\d{2}$/ for start and end.
MatchesHHMM(s) ==
    /\ Len(s) = 5
    /\ SubSeq(s, 1, 1) \in Digits
    /\ SubSeq(s, 2, 2) \in Digits
    /\ SubSeq(s, 3, 3) = ":"
    /\ SubSeq(s, 4, 4) \in Digits
    /\ SubSeq(s, 5, 5) \in Digits

\* ------------------------------------------------------------- TopmateAPI
\* roleMap of getRoleVariations, in Object.entries order.
RoleMap == <<
    [key |-> "product manager",
     variations |-> <<"product manager", "pm", "product lead", "product owner">>],
    [key |-> "software engineer",
     variations |-> <<"software engineer", "swe", "developer", "programmer", "engineer">>],
    [key |-> "designer",
     variations |-> <<"designer", "ux designer", "ui designer", "product designer">>],
    [key |-> "data scientist",
     variations |-> <<"data scientist", "data analyst", "ml engineer", "data engineer">>],
    [key |-> "marketing",
     variations |-> <<"marketing", "marketer", "growth", "marketing manager">>] >>

\* The entry test on the key alone.
RoleEntryHit_KeyOnly(e, normalizedRole) == Includes(normalizedRole, e.key)

\* Whether roleMap entry e answers for the normalized role.
RoleEntryHit(e, normalizedRole) ==
    \/ Includes(normalizedRole, e.key)
    \/ \E j \in 1..Len(e.variations) : Includes(normalizedRole, e.variations[j])

\* TopmateAPI.getRoleVariations: the variations of the first entry that hits,
\* else the role itself.
GetRoleVariations(role) ==
    LET normalizedRole == ToLowerCase(role)
        hits == {i \in 1..Len(RoleMap) : RoleEntryHit(RoleMap[i], normalizedRole)}
    IN  IF hits # {}
        THEN RoleMap[CHOOSE i \in hits : \A j \in hits : i <= j].variations
        ELSE <<role>>

\* `${name} ${headline} ${bio}`.toLowerCase()
ProfileText(userProfile) ==
    ToLowerCase(userProfile.name \o " " \o userProfile.headline \o " " \o userProfile.bio)

CompanyMatch(userProfile, targetCompany) ==
    Includes(ProfileText(userProfile), ToLowerCase(targetCompany))

RoleMatch(userProfile, targetRole) ==
    LET roleVariations == GetRoleVariations(targetRole)
    IN  \E i \in 1..Len(roleVariations) :
            Includes(ProfileText(userProfile), ToLowerCase(roleVariations[i]))

\* The type test of the services filter.
IsCallType(service) ==
    LET t == ToLowerCase(service.type)
    IN  \/ Includes(t, "meeting")
        \/ Includes(t, "call")
        \/ Includes(t, "video")
        \/ Includes(t, "chat")

\* The filter callback without the type test.
ServicePasses_AnyType(service, maxPrice) == service.charge <= maxPrice

\* The filter callback without the price test.
ServicePasses_AnyPrice(service, maxPrice) == IsCallType(service)

\* The callback of userProfile.services.filter.
ServicePasses(service, maxPrice) ==
    IF service.charge > maxPrice THEN FALSE ELSE IsCallType(service)

RECURSIVE FilterServices(_, _)
\* Array.prototype.filter with ServicePasses, keeping the order.
FilterServices(services, maxPrice) ==
    IF services = <<>> THEN <<>>
    ELSE LET rest == FilterServices(Tail(services), maxPrice)
         IN  IF ServicePasses(Head(services), maxPrice)
             THEN <<Head(services)>> \o rest
             ELSE rest

\* The .map at the end of filterCandidateServices.
MapService(service) ==
    [serviceId |-> service.id, serviceTitle |-> service.title,
     charge |-> service.charge, currency |-> service.currency,
     type |-> service.type]

\* TopmateAPI.filterCandidateServices.
FilterCandidateServices(userProfile, targetCompany, targetRole, maxPrice) ==
    IF ~CompanyMatch(userProfile, targetCompany) \/ ~RoleMatch(userProfile, targetRole)
    THEN <<>>
    ELSE LET candidateServices == FilterServices(userProfile.services, maxPrice)
         IN  [i \in 1..Len(candidateServices) |-> MapService(candidateServices[i])]

\* An enrichment that reports every analysed expert as matched.
EnrichedExpert_AlwaysMatched(expert, qualifyingServices) ==
    [username |-> expert.username, name |-> expert.name,
     matchesTarget |-> TRUE, qualifyingServices |-> qualifyingServices]

\* The enrichedExpert record of testSearchAndEnrichment:
\* {...expert, matchesTarget: qualifyingServices.length > 0, qualifyingServices}.
EnrichedExpert(expert, qualifyingServices) ==
    [username |-> expert.username, name |-> expert.name,
     matchesTarget |-> Len(qualifyingServices) > 0,
     qualifyingServices |-> qualifyingServices]

\* ------------------------------------------------------------ environment
\* The marketplace: the profile the API holds for each username.
Usernames == {"ann", "bob", "cy", "dee"}

ProfileOf(username) ==
    CASE username = "ann" ->
            [username |-> "ann", name |-> "Ann", headline |-> "Designer at Acme", bio |-> "",
             services |-> <<
                [id |-> 1, title |-> "Intro", charge |-> 0, currency |-> "USD",
                 type |-> "Video Meeting"],
                [id |-> 2, title |-> "Deep dive", charge |-> 50, currency |-> "USD",
                 type |-> "1:1 Call"] >>]
      [] username = "bob" ->
            [username |-> "bob", name |-> "Bob", headline |-> "UX Designer", bio |-> "ex ACME",
             services |-> <<
                [id |-> 3, title |-> "Review", charge |-> 0, currency |-> "USD",
                 type |-> "Document"],
                [id |-> 4, title |-> "Mentoring", charge |-> 50, currency |-> "USD",
                 type |-> "Chat"] >>]
      [] username = "dee" ->
            [username |-> "dee", name |-> "Dee", headline |-> "Designer at Acme", bio |-> "",
             services |-> <<
                [id |-> 6, title |-> "Coffee", charge |-> 0, currency |-> "USD",
                 type |-> "Video call"] >>]
      [] OTHER ->
            [username |-> "cy", name |-> "Cy", headline |-> "Engineer at Globex", bio |-> "",
             services |-> <<
                [id |-> 5, title |-> "Mock", charge |-> 0, currency |-> "USD",
                 type |-> "Video call"] >>]

\* The expert cards a search page can show: one per username, and one card
\* whose name element is empty.
Cards ==
    {[username |-> u, name |-> ProfileOf(u).name] : u \in Usernames}
        \cup {[username |-> "ann", name |-> ""]}

\* The text of the slot elements a booking page can show ("" is an element
\* without text).
SlotTexts == {"Mon 10:00", "Mon 18:00", ""}

\* All sequences over S of length at most n.
SeqsUpTo(S, n) == UNION {[1..k -> S] : k \in 0..n}

\* The availability window of the requests.
Window == [days |-> <<"Mon">>, start |-> "09:00", end |-> "17:00", timezone |-> "UTC"]

\* Request bodies a client posts: the well-formed ones, and malformed ones.
ValidBodies ==
    {[target_company |-> "Acme", target_role |-> "Designer", num_calls |-> n,
      max_price |-> p, availability |-> <<Window>>] : n \in 1..MaxCalls, p \in {0, 50}}

MalformedBodies ==
    { [target_role |-> "Designer", num_calls |-> 1, max_price |-> 0,
       availability |-> <<Window>>],
      [target_company |-> "Acme", target_role |-> "Designer", num_calls |-> 0,
       max_price |-> 0, availability |-> <<Window>>],
      [target_company |-> "Acme", target_role |-> "Designer", num_calls |-> 1,
       max_price |-> -1, availability |-> <<Window>>],
      [target_company |-> "Acme", target_role |-> "Designer", num_calls |-> 1,
       max_price |-> 0, availability |-> <<>>],
      [target_company |-> "Acme", target_role |-> "Designer", num_calls |-> 1,
       max_price |-> 0, availability |-> <<[Window EXCEPT !.start = "9:00"]>>] }

\* A body the schema accepts whose window starts after it ends.
InvertedBodies ==
    { [target_company |-> "Acme", target_role |-> "Designer", num_calls |-> 1,
       max_price |-> 0,
       availability |-> <<[Window EXCEPT !.start = "17:00", !.end = "09:00"]>>] }

Bodies == ValidBodies \cup MalformedBodies \cup InvertedBodies

\* process.env: the variable is set to the string, or unset ("").
Envs ==
    { [USER_NAME |-> "Jo", USER_EMAIL |-> "jo@x.io", USER_PHONE |-> ""],
      [USER_NAME |-> "", USER_EMAIL |-> "jo@x.io", USER_PHONE |-> ""],
      [USER_NAME |-> "Jo", USER_EMAIL |-> "", USER_PHONE |-> "555"] }

\* ------------------------------------------------------------------ schema
DayNames == {"Mon", "Tue", "Wed", "Thu", "Fri", "Sat", "Sun"}

\* One element of the availability array against its z.object.
WindowOk(w) ==
    /\ DOMAIN w = {"days", "start", "end", "timezone"}
    /\ \A i \in 1..Len(w.days) : w.days[i] \in DayNames
    /\ MatchesHHMM(w.start)
    /\ MatchesHHMM(w.end)

\* The schema with num_calls left unchecked.
SchemaOk_AnyCalls(b) ==
    /\ "target_company" \in DOMAIN b /\ Len(b.target_company) >= 1
    /\ "target_role" \in DOMAIN b /\ Len(b.target_role) >= 1
    /\ "max_price" \in DOMAIN b => b.max_price >= 0
    /\ "availability" \in DOMAIN b
    /\ Len(b.availability) >= 1
    /\ \A i \in 1..Len(b.availability) : WindowOk(b.availability[i])

\* BookingRequestSchema.safeParse(body).success
SchemaOk(b) ==
    /\ "target_company" \in DOMAIN b /\ Len(b.target_company) >= 1
    /\ "target_role" \in DOMAIN b /\ Len(b.target_role) >= 1
    /\ "num_calls" \in DOMAIN b => b.num_calls >= 1
    /\ "max_price" \in DOMAIN b => b.max_price >= 0
    /\ "availability" \in DOMAIN b
    /\ Len(b.availability) >= 1
    /\ \A i \in 1..Len(b.availability) : WindowOk(b.availability[i])

\* validationResult.data: the body with the schema's defaults filled in.
SchemaData(b) ==
    [target_company |-> b.target_company,
     target_role |-> b.target_role,
     num_calls |-> IF "num_calls" \in DOMAIN b THEN b.num_calls ELSE 3,
     max_price |-> IF "max_price" \in DOMAIN b THEN b.max_price ELSE 0,
     availability |-> b.availability]

\* ------------------------------------------------------------------- state
VARIABLES
    pc,             \* where the request handler and the run it awaits stand
    env,            \* process.env
    body,           \* request.body, NULL before the request arrives
    options,        \* bookingOptions (validationResult.data), NULL before
    userDetails,    \* BookingService.userDetails, NULL before construction
    browser,        \* the TopmateBrowser and the Chromium processes it drives
    searchResults,  \* the experts extractSearchResults returned
    idx,            \* index in searchResults of the expert the loop is at
    result,         \* result of bookCallsForUser: booked, bookings, errors
    matchingSlot,   \* attemptBooking's matchingSlot, NULL outside it
    serviceToBook,  \* qualifyingServices[0], NULL outside an attempt
    failure,        \* what ended the last iteration without a booking
    error,          \* the exception propagating out of bookCallsForUser
    calls,          \* the external calls made so far, per kind, in order
    response,       \* the HTTP reply, NULL until sent
    page,           \* the search page: whether the query was answered, its cards
    args,           \* the function and arguments of a direct call, NULL in a run
    ret,            \* the value that call returned, NULL before it returns
    requests,       \* the requests in flight together, each with its own run
    sessions        \* the TopmateBrowser instances of those requests

vars == <<pc, env, body, options, userDetails, browser, searchResults, idx, result,
          matchingSlot, serviceToBook, failure, error, calls, response, page, args, ret,
          requests, sessions>>

\* ---------------------------------------------------------- TopmateBrowser
\* new TopmateBrowser(): both handles null; no Chromium process yet.
NewTopmateBrowser ==
    [browser |-> FALSE, context |-> FALSE,
     openBrowsers |-> 0, openContexts |-> 0,
     launches |-> 0, browserCloses |-> 0, contextCloses |-> 0]

\* TopmateBrowser.launch, when chromium.launch resolves.
Launch(b) ==
    IF b.browser THEN b
    ELSE [b EXCEPT !.browser = TRUE, !.openBrowsers = @ + 1, !.launches = @ + 1]

\* this.context = await this.browser.newContext(...), when it resolves.
NewContext(b) ==
    IF b.context THEN b
    ELSE [b EXCEPT !.context = TRUE, !.openContexts = @ + 1]

\* A close that reaches the browser only through the context branch: a
\* browser launched without a context stays open.
TopmateBrowserClose_Nested(b) ==
    IF b.context
    THEN [b EXCEPT !.context = FALSE, !.browser = FALSE, !.openContexts = 0,
                   !.openBrowsers = @ - 1, !.contextCloses = @ + 1,
                   !.browserCloses = @ + 1]
    ELSE b

\* A close that leaves the handles set after closing them.
TopmateBrowserClose_KeepHandles(b) ==
    LET c == IF b.context
             THEN [b EXCEPT !.openContexts = @ - 1, !.contextCloses = @ + 1]
             ELSE b
    IN  IF c.browser
        THEN [c EXCEPT !.openBrowsers = @ - 1, !.openContexts = 0,
                       !.browserCloses = @ + 1]
        ELSE c

\* TopmateBrowser.close.
TopmateBrowserClose(b) ==
    LET c == IF b.context
             THEN [b EXCEPT !.context = FALSE, !.openContexts = @ - 1,
                            !.contextCloses = @ + 1]
             ELSE b
    IN  IF c.browser
        THEN [c EXCEPT !.browser = FALSE, !.openBrowsers = @ - 1,
                       !.openContexts = 0, !.browserCloses = @ + 1]
        ELSE c

\* ---------------------------------------------------------- BookingService
\* this.userDetails of the constructor.
NewUserDetails(e) ==
    [name |-> IF e.USER_NAME # "" THEN e.USER_NAME ELSE "Test User",
     email |-> IF e.USER_EMAIL # "" THEN e.USER_EMAIL ELSE "test@example.com",
     phone |-> e.USER_PHONE]

NewResult == [booked |-> 0, bookings |-> <<>>, errors |-> <<>>]

NoCalls ==
    [fetch |-> <<>>, open |-> <<>>, clickService |-> <<>>, clickSlot |-> <<>>,
     fill |-> <<>>, submit |-> <<>>]

RECURSIVE ExtractCards(_)
\* The cards.forEach of extractSearchResults: a card is kept when it has a
\* username and a name.
ExtractCards(cards) ==
    IF cards = <<>> THEN <<>>
    ELSE LET card == Head(cards)
             rest == ExtractCards(Tail(cards))
         IN  IF card.username # "" /\ card.name # ""
             THEN <<[username |-> card.username, name |-> card.name]>> \o rest
             ELSE rest

RECURSIVE SlotsFrom(_, _)
\* The slotElements.forEach of extractAvailableSlots, from element index + 1
\* = n on: an element with text becomes a slot.
SlotsFrom(texts, n) ==
    IF texts = <<>> THEN <<>>
    ELSE LET rest == SlotsFrom(Tail(texts), n + 1)
         IN  IF Head(texts) # ""
             THEN <<[selector |-> n, datetime |-> Head(texts), utc |-> "now"]>> \o rest
             ELSE rest

\* BookingService.extractAvailableSlots, when page.evaluate resolves.
ExtractAvailableSlots(texts) == SlotsFrom(texts, 1)

\* BookingService.findMatchingSlot: availableSlots[0] || null.
FindMatchingSlot(availableSlots, userAvailability, expertTimezone) ==
    IF Len(availableSlots) > 0 THEN availableSlots[1] ELSE NULL

\* The record attemptBooking returns after the confirmation.
BookingRecord(expert, service, slot) ==
    [expert_username |-> expert.username,
     session_price |-> service.charge,
     currency |-> service.currency,
     service_title |-> service.serviceTitle,
     time_user_tz |-> slot.datetime,
     time_utc |-> slot.utc]

\* The expert the loop is at.
Expert == searchResults[idx]

Record(kind, what) == [calls EXCEPT ![kind] = Append(@, what)]

\* The search page before the query is answered.
NoPage == [answered |-> FALSE, cards |-> <<>>]

\* -------------------------------------------------------------------- Init
Init ==
    /\ pc = "idle"
    /\ env \in Envs
    /\ body = NULL
    /\ options = NULL
    /\ userDetails = NULL
    /\ browser = NewTopmateBrowser
    /\ searchResults = <<>>
    /\ idx = 1
    /\ result = NewResult
    /\ matchingSlot = NULL
    /\ serviceToBook = NULL
    /\ failure = "none"
    /\ error = "none"
    /\ calls = NoCalls
    /\ response = NULL
    /\ page = NoPage
    /\ args = NULL
    /\ ret = NULL
    /\ requests = <<>>
    /\ sessions = <<>>

\* The run's variables, untouched by a step of the handler alone.
loopVars == <<searchResults, idx, result, matchingSlot, serviceToBook, calls>>
runVars == <<loopVars, failure>>

\* ----------------------------------------------- POST /api/book-topmate-calls
\* The environment check with the email forgotten.
IdentityConfigured_NameOnly(e) == e.USER_NAME # ""

\* The negation of !process.env.USER_NAME || !process.env.USER_EMAIL.
IdentityConfigured(e) == ~(e.USER_NAME = "" \/ e.USER_EMAIL = "")

\* The handler from the arrival of the request to its first await: the
\* schema check, the environment check, new BookingService() and the start
\* of bookCallsForUser.
PostBookTopmateCalls ==
    /\ pc = "idle"
    /\ \E b \in Bodies :
        /\ body' = b
        /\ IF ~SchemaOk(b)
           THEN /\ response' = [status |-> 400, error |-> "VALIDATION_ERROR"]
                /\ pc' = "done"
                /\ UNCHANGED <<options, userDetails>>
           ELSE IF ~IdentityConfigured(env)
           THEN /\ response' = [status |-> 500, error |-> "CONFIGURATION_ERROR"]
                /\ pc' = "done"
                /\ options' = SchemaData(b)
                /\ UNCHANGED userDetails
           ELSE /\ options' = SchemaData(b)
                /\ userDetails' = NewUserDetails(env)
                /\ pc' = "createPage"
                /\ UNCHANGED response
    /\ UNCHANGED <<env, browser, error>>
    /\ UNCHANGED runVars
    /\ UNCHANGED <<page, args, ret, requests, sessions>>

\* An exception inside the try of bookCallsForUser: the catch logs and
\* rethrows it, the finally block is next.
Throw(what) ==
    /\ error' = what
    /\ failure' = what
    /\ pc' = "finally"

\* const page = await this.browser.createPage()
CreatePage ==
    /\ pc = "createPage"
    /\ \E outcome \in {"launch", "newContext", "newPage", "ok"} :
        \/ /\ outcome = "launch"
           /\ ~browser.browser
           /\ Throw("createPage")
           /\ UNCHANGED browser
        \/ /\ outcome = "newContext"
           /\ ~Launch(browser).context
           /\ browser' = Launch(browser)
           /\ Throw("createPage")
        \/ /\ outcome = "newPage"
           /\ browser' = NewContext(Launch(browser))
           /\ Throw("createPage")
        \/ /\ outcome = "ok"
           /\ browser' = NewContext(Launch(browser))
           /\ pc' = "openTopmateSearch"
           /\ UNCHANGED <<error, failure>>
    /\ UNCHANGED <<env, body, options, userDetails, response>>
    /\ UNCHANGED loopVars
    /\ UNCHANGED <<page, args, ret, requests, sessions>>

\* await this.browser.openTopmateSearch(page)
OpenTopmateSearch ==
    /\ pc = "openTopmateSearch"
    /\ \/ Throw("openTopmateSearch")
       \/ /\ pc' = "searchExperts"
          /\ UNCHANGED <<error, failure>>
    /\ UNCHANGED <<env, body, options, userDetails, browser, response>>
    /\ UNCHANGED loopVars
    /\ UNCHANGED <<page, args, ret, requests, sessions>>

\* await this.browser.searchExperts(page, searchQuery): the page answers the
\* query with its cards. With no card the wait for the first card times out
\* and throws; the input, the fill or the key press can throw as well.
SearchExperts ==
    /\ pc = "searchExperts"
    /\ \/ /\ Throw("searchExperts")
          /\ UNCHANGED page
       \/ \E shown \in SeqsUpTo(Cards, MaxResults) :
            /\ page' = [answered |-> TRUE, cards |-> shown]
            /\ IF shown = <<>>
               THEN Throw("searchExperts")
               ELSE /\ pc' = "extractSearchResults"
                    /\ UNCHANGED <<error, failure>>
    /\ UNCHANGED <<env, body, options, userDetails, browser, response>>
    /\ UNCHANGED loopVars
    /\ UNCHANGED <<args, ret, requests, sessions>>

\* const searchResults = await this.browser.extractSearchResults(page): the
\* cards of the page, each kept when it has a username and a name.
ExtractSearchResults ==
    /\ pc = "extractSearchResults"
    /\ \/ /\ Throw("extractSearchResults")
          /\ UNCHANGED searchResults
       \/ /\ searchResults' = ExtractCards(page.cards)
          /\ pc' = "loop"
          /\ UNCHANGED <<error, failure>>
    /\ UNCHANGED <<env, body, options, userDetails, browser, response>>
    /\ UNCHANGED <<idx, result, matchingSlot, serviceToBook, calls>>
    /\ UNCHANGED <<page, args, ret, requests, sessions>>

\* The break test with > for >=: one booking too many.
TargetReached_OffByOne == result.booked > options.num_calls

\* if (result.booked >= options.num_calls) break
TargetReached == result.booked >= options.num_calls

\* The head of for (const expert of searchResults): the end of the list or
\* the break on result.booked >= options.num_calls returns the result;
\* otherwise the iteration starts with the profile fetch.
LoopHead ==
    /\ pc = "loop"
    /\ IF idx > Len(searchResults) \/ TargetReached
       THEN pc' = "finally"
       ELSE pc' = "fetchUserProfile"
    /\ failure' = IF pc' = "finally" THEN failure ELSE "none"
    /\ UNCHANGED <<env, body, options, userDetails, browser, response, error>>
    /\ UNCHANGED <<searchResults, idx, result, matchingSlot, serviceToBook, calls>>
    /\ UNCHANGED <<page, args, ret, requests, sessions>>

\* continue, or the end of the loop body: on to the next expert.
NextExpert(cause) ==
    /\ idx' = idx + 1
    /\ pc' = "loop"
    /\ failure' = cause
    /\ matchingSlot' = NULL
    /\ serviceToBook' = NULL

\* A continue without the push: the candidate is dropped silently.
Skip_NoEntry(reason, cause) ==
    /\ NextExpert(cause)
    /\ UNCHANGED result

\* A skip that puts its entry at the front of the list (unshift).
Skip_Unshift(reason, cause) ==
    /\ result' = [result EXCEPT !.errors =
                    <<[username |-> Expert.username, reason |-> reason]>> \o @]
    /\ NextExpert(cause)

\* result.errors?.push({username, reason}); continue
Skip(reason, cause) ==
    /\ result' = [result EXCEPT !.errors =
                    Append(@, [username |-> Expert.username, reason |-> reason])]
    /\ NextExpert(cause)

\* A choice of the last qualifying service.
ServiceToBook_Last(qualifyingServices) == qualifyingServices[Len(qualifyingServices)]

\* const serviceToBook = qualifyingServices[0]
ServiceToBook(qualifyingServices) == qualifyingServices[1]

\* const profile = await this.api.fetchUserProfile(expert.username), and the
\* loop body up to its next await: the null check, filterCandidateServices,
\* the empty check and the choice of qualifyingServices[0].
FetchUserProfile ==
    /\ pc = "fetchUserProfile"
    /\ calls' = Record("fetch", Expert.username)
    /\ \E profile \in {NULL, ProfileOf(Expert.username)} :
        IF profile = NULL
        THEN Skip("Failed to fetch profile", "fetchUserProfile")
        ELSE LET qualifyingServices ==
                    FilterCandidateServices(profile, options.target_company,
                                            options.target_role, options.max_price)
             IN  IF Len(qualifyingServices) = 0
                 THEN Skip("No qualifying services found", "filterCandidateServices")
                 ELSE /\ serviceToBook' = ServiceToBook(qualifyingServices)
                      /\ pc' = "openProfile"
                      /\ UNCHANGED <<idx, result, matchingSlot, failure>>
    /\ UNCHANGED <<env, body, options, userDetails, browser, response, error>>
    /\ UNCHANGED searchResults
    /\ UNCHANGED <<page, args, ret, requests, sessions>>

\* await this.browser.openProfile(page, expert.username): outside the try of
\* attemptBooking, so its exception leaves the loop.
OpenProfile ==
    /\ pc = "openProfile"
    /\ calls' = Record("open", Expert.username)
    /\ \/ Throw("openProfile")
       \/ /\ pc' = "clickService"
          /\ UNCHANGED <<error, failure>>
    /\ UNCHANGED <<env, body, options, userDetails, browser, response>>
    /\ UNCHANGED <<searchResults, idx, result, matchingSlot, serviceToBook>>
    /\ UNCHANGED <<page, args, ret, requests, sessions>>

\* An exception inside the try of attemptBooking: it returns null, `booked`
\* is falsy, and the loop goes on.
AttemptFailed(cause) ==
    /\ NextExpert(cause)
    /\ UNCHANGED result

\* await page.click(`#service-${service.serviceId}`)
ClickService ==
    /\ pc = "clickService"
    /\ calls' = Record("clickService", Expert.username)
    /\ \/ AttemptFailed("clickService")
       \/ /\ pc' = "waitForSlots"
          /\ UNCHANGED <<idx, result, matchingSlot, serviceToBook, failure>>
    /\ UNCHANGED <<env, body, options, userDetails, browser, response, error>>
    /\ UNCHANGED searchResults
    /\ UNCHANGED <<page, args, ret, requests, sessions>>

\* await page.waitForSelector('.slot-card, .mobile-slots', ...)
WaitForSlots ==
    /\ pc = "waitForSlots"
    /\ \/ AttemptFailed("waitForSlots")
       \/ /\ pc' = "extractAvailableSlots"
          /\ UNCHANGED <<idx, result, matchingSlot, serviceToBook, failure>>
    /\ UNCHANGED <<env, body, options, userDetails, browser, response, error>>
    /\ UNCHANGED <<searchResults, calls>>
    /\ UNCHANGED <<page, args, ret, requests, sessions>>

\* const availableSlots = await this.extractAvailableSlots(page), then
\* findMatchingSlot and the null check.
ExtractSlots ==
    /\ pc = "extractAvailableSlots"
    /\ \/ AttemptFailed("extractAvailableSlots")
       \/ \E texts \in SeqsUpTo(SlotTexts, MaxSlots) :
            LET availableSlots == ExtractAvailableSlots(texts)
                slot == FindMatchingSlot(availableSlots, options.availability, "UTC")
            IN  IF slot = NULL
                THEN AttemptFailed("findMatchingSlot")
                ELSE /\ matchingSlot' = slot
                     /\ pc' = "clickSlot"
                     /\ UNCHANGED <<idx, result, serviceToBook, failure>>
    /\ UNCHANGED <<env, body, options, userDetails, browser, response, error>>
    /\ UNCHANGED <<searchResults, calls>>
    /\ UNCHANGED <<page, args, ret, requests, sessions>>

\* await page.click(matchingSlot.selector)
ClickSlot ==
    /\ pc = "clickSlot"
    /\ calls' = Record("clickSlot", Expert.username)
    /\ \/ AttemptFailed("clickSlot")
       \/ /\ pc' = "fillBookingForm"
          /\ UNCHANGED <<idx, result, matchingSlot, serviceToBook, failure>>
    /\ UNCHANGED <<env, body, options, userDetails, browser, response, error>>
    /\ UNCHANGED searchResults
    /\ UNCHANGED <<page, args, ret, requests, sessions>>

\* await this.fillBookingForm(page, service)
FillBookingForm ==
    /\ pc = "fillBookingForm"
    /\ calls' = Record("fill", [name |-> userDetails.name, email |-> userDetails.email])
    /\ \/ AttemptFailed("fillBookingForm")
       \/ /\ pc' = "submit"
          /\ UNCHANGED <<idx, result, matchingSlot, serviceToBook, failure>>
    /\ UNCHANGED <<env, body, options, userDetails, browser, response, error>>
    /\ UNCHANGED searchResults
    /\ UNCHANGED <<page, args, ret, requests, sessions>>

\* await page.click('.sp-cta')
Submit ==
    /\ pc = "submit"
    /\ calls' = Record("submit", Expert.username)
    /\ \/ AttemptFailed("submit")
       \/ /\ pc' = "waitForConfirmation"
          /\ UNCHANGED <<idx, result, matchingSlot, serviceToBook, failure>>
    /\ UNCHANGED <<env, body, options, userDetails, browser, response, error>>
    /\ UNCHANGED searchResults
    /\ UNCHANGED <<page, args, ret, requests, sessions>>

\* await page.waitForLoadState('networkidle', ...), the record attemptBooking
\* returns, and result.booked++; result.bookings.push(booked).
WaitForConfirmation ==
    /\ pc = "waitForConfirmation"
    /\ \/ AttemptFailed("waitForConfirmation")
       \/ /\ result' = [result EXCEPT
                !.booked = @ + 1,
                !.bookings = Append(@, BookingRecord(Expert, serviceToBook, matchingSlot))]
          /\ NextExpert("none")
    /\ UNCHANGED <<env, body, options, userDetails, browser, response, error>>
    /\ UNCHANGED <<searchResults, calls>>
    /\ UNCHANGED <<page, args, ret, requests, sessions>>

\* finally { await this.browser.close() } of bookCallsForUser.
ServiceFinally ==
    /\ pc = "finally"
    /\ browser' = TopmateBrowserClose(browser)
    /\ pc' = "handlerFinally"
    /\ UNCHANGED <<env, body, options, userDetails, response, error>>
    /\ UNCHANGED runVars
    /\ UNCHANGED <<page, args, ret, requests, sessions>>

\* A handler without the outer catch's reply: every run answers as a success.
Reply_AlwaysSuccess(err, res) ==
    [status |-> 200, booked |-> res.booked, bookings |-> res.bookings,
     skipped_candidates |-> res.errors]

\* A handler that answers a run without bookings as a failure.
Reply_ErrorWhenNone(err, res) ==
    IF err = "none" /\ res.booked > 0
    THEN [status |-> 200, booked |-> res.booked, bookings |-> res.bookings,
          skipped_candidates |-> res.errors]
    ELSE [status |-> 500, error |-> "BOOKING_FAILED"]

\* What the handler sends after bookCallsForUser: the success object when it
\* returned res, the BOOKING_FAILED error of the outer catch when it threw.
Reply(err, res) ==
    IF err = "none"
    THEN [status |-> 200, booked |-> res.booked, bookings |-> res.bookings,
          skipped_candidates |-> res.errors]
    ELSE [status |-> 500, error |-> "BOOKING_FAILED"]

\* The inner finally of the handler, await bookingService.close(), and the
\* reply: the success object, or from the outer catch BOOKING_FAILED.
HandlerFinally ==
    /\ pc = "handlerFinally"
    /\ browser' = TopmateBrowserClose(browser)
    /\ response' = Reply(error, result)
    /\ pc' = "done"
    /\ UNCHANGED <<env, body, options, userDetails, error>>
    /\ UNCHANGED runVars
    /\ UNCHANGED <<page, args, ret, requests, sessions>>

Next ==
    \/ PostBookTopmateCalls
    \/ CreatePage
    \/ OpenTopmateSearch
    \/ SearchExperts
    \/ ExtractSearchResults
    \/ LoopHead
    \/ FetchUserProfile
    \/ OpenProfile
    \/ ClickService
    \/ WaitForSlots
    \/ ExtractSlots
    \/ ClickSlot
    \/ FillBookingForm
    \/ Submit
    \/ WaitForConfirmation
    \/ ServiceFinally
    \/ HandlerFinally

Spec == Init /\ [][Next]_vars

\* Every await settles: Playwright's calls and the fetch resolve or reject
\* within their timeouts, so a step that can be taken is taken.
FairSpec == Spec /\ WF_vars(Next)

\* ------------------------------------------------- the functions on their own
\* The (charge, type) pairs of the services of a profile.
PureServiceKinds == {0, 50, 100} \X {"Video Meeting", "Document", "CHAT"}

\* A services array: the i-th service has id i.
ServicesOf(kinds) ==
    [i \in 1..Len(kinds) |->
        [id |-> i, title |-> "Session", charge |-> kinds[i][1], currency |-> "USD",
         type |-> kinds[i][2]]]

\* Profiles as fetchUserProfile returns them.
PureProfiles ==
    {[username |-> "eve", name |-> "Eve", headline |-> h, bio |-> "",
      services |-> ServicesOf(kinds)] :
        h \in {"Designer at Acme", "Designer at Globex", "Product lead, ACME"},
        kinds \in SeqsUpTo(PureServiceKinds, MaxServices)}

\* Slot element texts on, before and after the bounds of Window.
PureSlotTexts == SlotTexts \cup {"Mon 09:00", "Mon 17:00", "Mon 08:00"}

\* Roles a request can name: keys, variations, strings that contain one, and
\* strings that contain none.
PureRoles ==
    {"Designer", "product manager", "PM", "Senior Designer", "Development",
     "Astronaut", "Growth hacker", "Recruiter"}

\* The calls of the three functions.
PureArgs ==
    {[fn |-> "filterCandidateServices", userProfile |-> p, targetCompany |-> c,
      targetRole |-> r, maxPrice |-> m] :
        p \in PureProfiles, c \in {"Acme", "Globex"}, r \in {"Designer", "PM"},
        m \in {0, 50}}
    \cup
    {[fn |-> "findMatchingSlot", availableSlots |-> ExtractAvailableSlots(texts),
      userAvailability |-> <<Window>>, expertTimezone |-> "UTC"] :
        texts \in SeqsUpTo(PureSlotTexts, MaxSlots)}
    \cup
    {[fn |-> "getRoleVariations", role |-> r] : r \in PureRoles}

InitPure ==
    /\ pc = "idle"
    /\ env = CHOOSE e \in Envs : IdentityConfigured(e)
    /\ body = NULL
    /\ options = NULL
    /\ userDetails = NULL
    /\ browser = NewTopmateBrowser
    /\ searchResults = <<>>
    /\ idx = 1
    /\ result = NewResult
    /\ matchingSlot = NULL
    /\ serviceToBook = NULL
    /\ failure = "none"
    /\ error = "none"
    /\ calls = NoCalls
    /\ response = NULL
    /\ page = NoPage
    /\ args \in PureArgs
    /\ ret = NULL
    /\ requests = <<>>
    /\ sessions = <<>>

requestVars ==
    <<pc, env, body, options, userDetails, browser, searchResults, idx, result,
      matchingSlot, serviceToBook, failure, error, calls, response, page>>

CallFilterCandidateServices ==
    /\ args.fn = "filterCandidateServices"
    /\ ret = NULL
    /\ ret' = [value |-> FilterCandidateServices(args.userProfile, args.targetCompany,
                                                 args.targetRole, args.maxPrice)]
    /\ UNCHANGED <<requestVars, args, requests, sessions>>

CallFindMatchingSlot ==
    /\ args.fn = "findMatchingSlot"
    /\ ret = NULL
    /\ ret' = [value |-> FindMatchingSlot(args.availableSlots, args.userAvailability,
                                          args.expertTimezone)]
    /\ UNCHANGED <<requestVars, args, requests, sessions>>

CallGetRoleVariations ==
    /\ args.fn = "getRoleVariations"
    /\ ret = NULL
    /\ ret' = [value |-> GetRoleVariations(args.role)]
    /\ UNCHANGED <<requestVars, args, requests, sessions>>

NextPure ==
    \/ CallFilterCandidateServices
    \/ CallFindMatchingSlot
    \/ CallGetRoleVariations

SpecPure == InitPure /\ [][NextPure]_vars

\* ------------------------------------------------------ overlapping requests
\* Two requests whose handlers are in flight at the same time.
Runs == {1, 2}

\* One TopmateBrowser for the whole process.
BrowserOf_Shared(r) == 1

\* The TopmateBrowser of request r: `new BookingService()` in the handler
\* constructs a `new TopmateBrowser()` of its own.
BrowserOf(r) == r

\* The body of the overlapping requests.
OverlapBodies == {b \in ValidBodies : b.num_calls = MaxCalls /\ b.max_price = 0}

\* The cards a search page shows them.
OverlapCards == {c \in Cards : c.username \in {"ann", "cy", "dee"} /\ c.name # ""}

\* The slot an attempt that goes through books.
OverlapSlot == ExtractAvailableSlots(<<"Mon 10:00">>)[1]

\* A request before its handler starts.
NewRequest ==
    [pc |-> "idle", options |-> NULL, searchResults |-> <<>>, idx |-> 1,
     result |-> NewResult, error |-> "none", response |-> NULL]

InitOverlap ==
    /\ pc = "idle"
    /\ env = CHOOSE e \in Envs : IdentityConfigured(e)
    /\ body = NULL
    /\ options = NULL
    /\ userDetails = NULL
    /\ browser = NewTopmateBrowser
    /\ searchResults = <<>>
    /\ idx = 1
    /\ result = NewResult
    /\ matchingSlot = NULL
    /\ serviceToBook = NULL
    /\ failure = "none"
    /\ error = "none"
    /\ calls = NoCalls
    /\ response = NULL
    /\ page = NoPage
    /\ args = NULL
    /\ ret = NULL
    /\ requests = [r \in Runs |-> NewRequest]
    /\ sessions = [r \in Runs |-> NewTopmateBrowser]

\* The handler of request r up to the first await of bookCallsForUser.
RunPost(r) ==
    /\ requests[r].pc = "idle"
    /\ \E b \in OverlapBodies :
        requests' = [requests EXCEPT ![r].options = SchemaData(b), ![r].pc = "createPage"]
    /\ UNCHANGED sessions

\* await this.browser.createPage() of request r.
RunCreatePage(r) ==
    /\ requests[r].pc = "createPage"
    /\ \/ /\ requests' = [requests EXCEPT ![r].error = "createPage", ![r].pc = "finally"]
          /\ UNCHANGED sessions
       \/ /\ sessions' = [sessions EXCEPT ![BrowserOf(r)] = NewContext(Launch(@))]
          /\ requests' = [requests EXCEPT ![r].pc = "search"]

\* openTopmateSearch, searchExperts and extractSearchResults of request r.
RunSearch(r) ==
    /\ requests[r].pc = "search"
    /\ \E shown \in SeqsUpTo(OverlapCards, MaxOverlapResults) :
        requests' =
            IF shown = <<>>
            THEN [requests EXCEPT ![r].error = "searchExperts", ![r].pc = "finally"]
            ELSE [requests EXCEPT ![r].searchResults = ExtractCards(shown),
                                  ![r].pc = "loop"]
    /\ UNCHANGED sessions

\* One iteration of the loop of request r, or its end.
RunIteration(r) ==
    LET q == requests[r]
        expert == q.searchResults[q.idx]
    IN  /\ q.pc = "loop"
        /\ IF q.idx > Len(q.searchResults) \/ q.result.booked >= q.options.num_calls
           THEN requests' = [requests EXCEPT ![r].pc = "finally"]
           ELSE \E outcome \in {"noProfile", "threw", "null", "booked"} :
                LET qualifyingServices ==
                        FilterCandidateServices(ProfileOf(expert.username),
                            q.options.target_company, q.options.target_role,
                            q.options.max_price)
                    skip(reason) ==
                        [requests EXCEPT
                            ![r].result.errors =
                                Append(@, [username |-> expert.username,
                                           reason |-> reason]),
                            ![r].idx = @ + 1]
                IN  requests' =
                        IF outcome = "noProfile"
                        THEN skip("Failed to fetch profile")
                        ELSE IF Len(qualifyingServices) = 0
                        THEN skip("No qualifying services found")
                        ELSE IF outcome = "threw"
                        THEN [requests EXCEPT ![r].error = "openProfile",
                                              ![r].pc = "finally"]
                        ELSE IF outcome = "null"
                        THEN [requests EXCEPT ![r].idx = @ + 1]
                        ELSE [requests EXCEPT
                                ![r].result.booked = @ + 1,
                                ![r].result.bookings =
                                    Append(@, BookingRecord(expert,
                                        ServiceToBook(qualifyingServices), OverlapSlot)),
                                ![r].idx = @ + 1]
        /\ UNCHANGED sessions

\* finally { await this.browser.close() } of the run of request r.
RunFinally(r) ==
    /\ requests[r].pc = "finally"
    /\ sessions' = [sessions EXCEPT ![BrowserOf(r)] = TopmateBrowserClose(@)]
    /\ requests' = [requests EXCEPT ![r].pc = "handlerFinally"]

\* await bookingService.close() and the reply of request r.
RunHandlerFinally(r) ==
    /\ requests[r].pc = "handlerFinally"
    /\ sessions' = [sessions EXCEPT ![BrowserOf(r)] = TopmateBrowserClose(@)]
    /\ requests' = [requests EXCEPT
            ![r].response = Reply(requests[r].error, requests[r].result),
            ![r].pc = "done"]

NextOverlap ==
    \/ \E r \in Runs : RunPost(r) /\ UNCHANGED <<requestVars, args, ret>>
    \/ \E r \in Runs : RunCreatePage(r) /\ UNCHANGED <<requestVars, args, ret>>
    \/ \E r \in Runs : RunSearch(r) /\ UNCHANGED <<requestVars, args, ret>>
    \/ \E r \in Runs : RunIteration(r) /\ UNCHANGED <<requestVars, args, ret>>
    \/ \E r \in Runs : RunFinally(r) /\ UNCHANGED <<requestVars, args, ret>>
    \/ \E r \in Runs : RunHandlerFinally(r) /\ UNCHANGED <<requestVars, args, ret>>

SpecOverlap == InitOverlap /\ [][NextOverlap]_vars

\* ================================================================== claims
\* The steps of the loop body: a candidate is being processed.
CandidatePcs ==
    {"fetchUserProfile", "openProfile", "clickService", "waitForSlots",
     "extractAvailableSlots", "clickSlot", "fillBookingForm", "submit",
     "waitForConfirmation"}

\* The expert of the iteration that has just ended (pc = "loop").
PrevExpert == searchResults[idx - 1]

\* Whether the skip list ends with an entry for username u.
LastSkipIsFor(u) ==
    /\ Len(result.errors) > 0
    /\ result.errors[Len(result.errors)].username = u

\* The number of positions of sequence s that hold x.
Count(s, x) == Cardinality({i \in DOMAIN s : s[i] = x})

\* C1: the booked count never exceeds num_calls, and once it has reached
\* num_calls no further external call for a candidate (profile fetch, profile
\* page, service or slot click, form, submit) is made and no step of the loop
\* body is entered.
C1_StopsAtTarget ==
    /\ [](options # NULL => result.booked <= options.num_calls)
    /\ [][(options # NULL /\ result.booked >= options.num_calls)
            => (calls' = calls /\ pc' \notin CandidatePcs)]_vars

\* C1 witness: a run that has replied after reaching num_calls with a
\* candidate left unprocessed.
C1_Witness ==
    /\ pc = "done"
    /\ options # NULL
    /\ result.booked = options.num_calls
    /\ idx <= Len(searchResults)
    /\ Len(calls.fetch) = idx - 1

\* C2: no username has its profile fetched twice, gets two booking attempts
\* or two BookingRecords in one run.
C2_AtMostOncePerUsername ==
    \A u \in Usernames :
        /\ Count(calls.fetch, u) <= 1
        /\ Count(calls.clickService, u) <= 1
        /\ Cardinality({i \in DOMAIN result.bookings :
                            result.bookings[i].expert_username = u}) <= 1

\* C3: a failure of openProfile, of the service click or of the wait for the
\* slots is a skip of that candidate: no exception leaves the run, and when
\* the loop goes on the skip list ends with an entry for that candidate.
C3_PageFailureIsSkip ==
    failure \in {"openProfile", "clickService", "waitForSlots"} =>
        /\ error = "none"
        /\ pc = "loop" => LastSkipIsFor(PrevExpert.username)
        /\ pc = "done" => response.status = 200

\* C4: once bookCallsForUser has returned or thrown, the TopmateBrowser holds
\* no browser and no context and no Chromium browser or context is open.
C4_BrowserClosedOnExit ==
    pc \in {"handlerFinally", "done"} =>
        /\ ~browser.browser
        /\ ~browser.context
        /\ browser.openBrowsers = 0
        /\ browser.openContexts = 0

\* C4 witness: the run has thrown out of the loop (openProfile failed) with a
\* browser launched, and has left bookCallsForUser.
C4_Witness ==
    /\ pc = "handlerFinally"
    /\ error = "openProfile"
    /\ browser.launches = 1
    /\ browser.browserCloses = 1
    /\ browser.contextCloses = 1

\* The availability rule of the specification (TimeResolver), for slot texts
\* of the form "Mon 10:00" read in the window's timezone: the day is one of
\* the window's days and the time of day lies in [start, end).
DigitValue(c) == CHOOSE n \in 0..9 : SubSeq("0123456789", n + 1, n + 1) = c

MinutesOf(hhmm) ==
    (DigitValue(SubSeq(hhmm, 1, 1)) * 10 + DigitValue(SubSeq(hhmm, 2, 2))) * 60
        + DigitValue(SubSeq(hhmm, 4, 4)) * 10 + DigitValue(SubSeq(hhmm, 5, 5))

IsInstantWithinWindow(text, w) ==
    /\ \E i \in 1..Len(w.days) : w.days[i] = SubSeq(text, 1, 3)
    /\ MinutesOf(w.start) <= MinutesOf(SubSeq(text, 5, 9))
    /\ MinutesOf(SubSeq(text, 5, 9)) < MinutesOf(w.end)

IsInstantWithinAnyWindow(text, windows) ==
    \E i \in 1..Len(windows) : IsInstantWithinWindow(text, windows[i])

\* C5: the slot of every BookingRecord, and every slot a booking is submitted
\* for, lies inside at least one availability window of the request.
C5_BookedSlotInWindow ==
    /\ \A i \in DOMAIN result.bookings :
            IsInstantWithinAnyWindow(result.bookings[i].time_user_tz, options.availability)
    /\ pc \in {"submit", "waitForConfirmation"} =>
            IsInstantWithinAnyWindow(matchingSlot.datetime, options.availability)

\* C6: when findMatchingSlot finds no slot, the skip list gets an entry for
\* that username with the reason "no slot in availability", no slot click
\* and no submission is made for the candidate, and the loop goes on.
C6_NoSlotIsSkip ==
    [][(pc = "extractAvailableSlots" /\ failure' = "findMatchingSlot") =>
            /\ result'.errors = Append(result.errors,
                    [username |-> Expert.username, reason |-> "no slot in availability"])
            /\ calls'.clickSlot = calls.clickSlot
            /\ calls'.submit = calls.submit
            /\ pc' = "loop"
            /\ idx' = idx + 1]_vars

\* The steps that commit a booking: slot click, form fill, submit,
\* confirmation wait.
CommitPcs == {"clickSlot", "fillBookingForm", "submit", "waitForConfirmation"}

\* What C7 asks of one step taken from a commit step.
C7_CommitStep ==
    pc \in CommitPcs =>
        IF failure' \in CommitPcs
        THEN /\ result'.errors = Append(result.errors,
                    [username |-> Expert.username, reason |-> "submission failed"])
             /\ result'.booked = result.booked
             /\ result'.bookings = result.bookings
             /\ pc' = "loop"
        ELSE IF pc' = "loop"
        THEN /\ result'.booked = result.booked + 1
             /\ Len(result'.bookings) = Len(result.bookings) + 1
             /\ result'.errors = result.errors
        ELSE result' = result

\* C7: a failed commit step adds the skip entry (username, "submission
\* failed"), leaves booked and bookings as they are and goes on with the
\* loop; a confirmed booking adds one to booked and appends one record.
C7_SubmitFailureIsSkip == [][C7_CommitStep]_vars

\* The two ways a fetched profile fails to qualify under the request.
CriteriaMismatch(u) ==
    \/ ~CompanyMatch(ProfileOf(u), options.target_company)
    \/ ~RoleMatch(ProfileOf(u), options.target_role)

NoAffordableLiveService(u) ==
    /\ ~CriteriaMismatch(u)
    /\ FilterServices(ProfileOf(u).services, options.max_price) = <<>>

\* The skip entries of candidates whose profile was fetched.
QualificationSkips ==
    {i \in DOMAIN result.errors : result.errors[i].reason # "Failed to fetch profile"}

\* C8: the skip entry of a candidate that fails the company/role match and
\* the skip entry of one that matches but has no service passing the filter
\* carry different reasons.
C8_ReasonsDistinguished ==
    \A i, j \in QualificationSkips :
        (/\ CriteriaMismatch(result.errors[i].username)
         /\ NoAffordableLiveService(result.errors[j].username))
            => result.errors[i].reason # result.errors[j].reason

\* C9: a profile fetch that returns null appends exactly one skip entry, for
\* that username, makes no further call for the candidate (no profile page,
\* no click, no form, no submit), books nothing, and moves the loop to the
\* next candidate.
C9_FetchFailureIsSkip ==
    [][(pc = "fetchUserProfile" /\ failure' = "fetchUserProfile") =>
            /\ Len(result'.errors) = Len(result.errors) + 1
            /\ SubSeq(result'.errors, 1, Len(result.errors)) = result.errors
            /\ result'.errors[Len(result'.errors)].username = Expert.username
            /\ result'.booked = result.booked
            /\ result'.bookings = result.bookings
            /\ calls' = Record("fetch", Expert.username)
            /\ serviceToBook' = NULL
            /\ pc' = "loop"
            /\ idx' = idx + 1]_vars

\* C9 witness: the loop is back at its head after a failed fetch, with the
\* skip entry for that expert and a further candidate to process.
C9_Witness ==
    /\ pc = "loop"
    /\ failure = "fetchUserProfile"
    /\ LastSkipIsFor(PrevExpert.username)
    /\ idx <= Len(searchResults)

\* The calls of the search step.
SearchSteps == {"createPage", "openTopmateSearch", "searchExperts", "extractSearchResults"}

\* C10: when a call of the search step fails, the run throws with no profile
\* fetched and no booking attempted or recorded, and the reply is the
\* BOOKING_FAILED error, not a success.
C10_SearchFailureIsFatal ==
    failure \in SearchSteps =>
        /\ error = failure
        /\ calls = NoCalls
        /\ result = NewResult
        /\ pc \in {"finally", "handlerFinally", "done"}
        /\ pc = "done" => (response.status = 500 /\ response.error = "BOOKING_FAILED")

\* C10 witness: the reply has been sent after searchExperts failed.
C10_Witness ==
    /\ pc = "done"
    /\ failure = "searchExperts"
    /\ response # NULL

\* C11: when the search page answers the query and no candidate comes out of
\* it (no card, or no card with a username and a name), the run does not
\* throw and replies with the success object, booked = 0 and no bookings.
C11_ZeroCandidatesIsSuccess ==
    (/\ page.answered
     /\ ExtractCards(page.cards) = <<>>
     /\ failure # "extractSearchResults") =>
        /\ error = "none"
        /\ pc = "done" =>
            (response.status = 200 /\ response.booked = 0 /\ response.bookings = <<>>)

\* The malformed bodies of C12: a required field missing, a start or end
\* that is not HH:MM, an empty availability, num_calls < 1, max_price < 0.
MalformedBody(b) ==
    \/ {"target_company", "target_role", "availability"} \ DOMAIN b # {}
    \/ /\ "num_calls" \in DOMAIN b
       /\ b.num_calls < 1
    \/ /\ "max_price" \in DOMAIN b
       /\ b.max_price < 0
    \/ /\ "availability" \in DOMAIN b
       /\ \/ b.availability = <<>>
          \/ \E i \in 1..Len(b.availability) :
                \/ ~MatchesHHMM(b.availability[i].start)
                \/ ~MatchesHHMM(b.availability[i].end)

\* C12: a malformed request is answered with VALIDATION_ERROR with no
\* BookingService constructed, no browser launched, no search page queried
\* and no external call made.
C12_MalformedRejected ==
    (body # NULL /\ MalformedBody(body)) =>
        /\ pc = "done"
        /\ response = [status |-> 400, error |-> "VALIDATION_ERROR"]
        /\ userDetails = NULL
        /\ browser = NewTopmateBrowser
        /\ page = NoPage
        /\ calls = NoCalls

\* C12 witness: the reply to a request whose num_calls is 0.
C12_Witness ==
    /\ pc = "done"
    /\ body # NULL
    /\ "num_calls" \in DOMAIN body
    /\ body.num_calls < 1
    /\ response # NULL

\* USER_NAME or USER_EMAIL is not set.
IdentityMissing == env.USER_NAME = "" \/ env.USER_EMAIL = ""

\* C13 as stated: with the name or the email missing, every request ends
\* with the configuration error, no browser launched and no form filled.
C13_MissingIdentityIsConfigError ==
    (body # NULL /\ IdentityMissing) =>
        /\ pc = "done"
        /\ response = [status |-> 500, error |-> "CONFIGURATION_ERROR"]
        /\ browser.launches = 0
        /\ calls.fill = <<>>

\* C13 amended: with the name or the email missing, a request the schema
\* accepts ends with CONFIGURATION_ERROR and one it rejects with
\* VALIDATION_ERROR (the body is checked first), never with BOOKING_FAILED or
\* a success; no BookingService is constructed, no browser launched, and no
\* form is ever filled with the placeholder name or email.
C13_NoRunWithoutIdentity ==
    /\ (body # NULL /\ IdentityMissing) =>
        /\ pc = "done"
        /\ response = IF SchemaOk(body)
                      THEN [status |-> 500, error |-> "CONFIGURATION_ERROR"]
                      ELSE [status |-> 400, error |-> "VALIDATION_ERROR"]
        /\ userDetails = NULL
        /\ browser.launches = 0
        /\ calls.fill = <<>>
    /\ \A i \in DOMAIN calls.fill :
        /\ calls.fill[i].name = env.USER_NAME
        /\ calls.fill[i].email = env.USER_EMAIL
        /\ calls.fill[i].name # "Test User"
        /\ calls.fill[i].email # "test@example.com"

\* C13 witness: a well-formed request answered with the configuration error
\* because USER_EMAIL is not set.
C13_Witness ==
    /\ pc = "done"
    /\ env.USER_EMAIL = ""
    /\ body \in ValidBodies
    /\ response = [status |-> 500, error |-> "CONFIGURATION_ERROR"]

\* Whether body b holds a well-formed window with start >= end.
HasInvertedWindow(b) ==
    /\ "availability" \in DOMAIN b
    /\ \E i \in 1..Len(b.availability) :
        /\ WindowOk(b.availability[i])
        /\ MinutesOf(b.availability[i].start) >= MinutesOf(b.availability[i].end)

LiveWords == {"meeting", "call", "video", "chat"}

\* The positions of the services of profile p that are live and cost at most m.
KeptServices(p, m) ==
    {i \in 1..Len(p.services) :
        /\ p.services[i].charge <= m
        /\ \E w \in LiveWords : Includes(ToLowerCase(p.services[i].type), w)}

\* C15: filterCandidateServices returns the empty list unless both the
\* company and the role match the profile text; when both match, it returns
\* one entry for each service with charge <= maxPrice and a live type, and no
\* other, in the order of the profile.
C15_FilterIsExact ==
    (args.fn = "filterCandidateServices" /\ ret # NULL) =>
        LET p == args.userProfile
            r == ret.value
        IN  IF CompanyMatch(p, args.targetCompany) /\ RoleMatch(p, args.targetRole)
            THEN /\ {r[k].serviceId : k \in 1..Len(r)} = KeptServices(p, args.maxPrice)
                 /\ \A k \in 1..Len(r) :
                        /\ r[k].charge = p.services[r[k].serviceId].charge
                        /\ r[k].type = p.services[r[k].serviceId].type
                        /\ r[k].serviceTitle = p.services[r[k].serviceId].title
                 /\ \A k, l \in 1..Len(r) : k < l => r[k].serviceId < r[l].serviceId
            ELSE r = <<>>

\* C15 witness: a matching profile with two services of which the second
\* alone is returned.
C15_Witness ==
    /\ args.fn = "filterCandidateServices"
    /\ ret # NULL
    /\ Len(args.userProfile.services) = 2
    /\ Len(ret.value) = 1
    /\ ret.value[1].serviceId = 2

\* The positions of the slots that lie within a window.
SlotsWithin(slots, windows) ==
    {i \in 1..Len(slots) : IsInstantWithinAnyWindow(slots[i].datetime, windows)}

\* C16: findMatchingSlot returns the first slot, in input order, that lies
\* within a window, and null when no slot does.
C16_FirstSlotWithinWindow ==
    (args.fn = "findMatchingSlot" /\ ret # NULL) =>
        LET within == SlotsWithin(args.availableSlots, args.userAvailability)
        IN  IF within = {}
            THEN ret.value = NULL
            ELSE ret.value =
                    args.availableSlots[CHOOSE i \in within : \A j \in within : i <= j]

\* C17: when the only slot is at the start time of a window on one of its
\* days, the slot matching returns it; when it is at the end time, the slot
\* matching returns null.
C17_HalfOpenWindow ==
    (/\ args.fn = "findMatchingSlot"
     /\ ret # NULL
     /\ Len(args.availableSlots) = 1) =>
        \A i \in 1..Len(args.userAvailability) :
            LET w == args.userAvailability[i]
                slot == args.availableSlots[1]
            IN  MinutesOf(w.start) < MinutesOf(w.end) =>
                    \A d \in 1..Len(w.days) :
                        /\ slot.datetime = w.days[d] \o " " \o w.start => ret.value = slot
                        /\ slot.datetime = w.days[d] \o " " \o w.end => ret.value = NULL

\* The entries of the table whose key is the lowercased role.
EntriesKeyed(role) == {i \in 1..Len(RoleMap) : RoleMap[i].key = ToLowerCase(role)}

\* The entries of the table whose key or one of whose variations occurs in
\* the lowercased role.
EntriesWithin(role) ==
    {i \in 1..Len(RoleMap) :
        \E word \in {RoleMap[i].key} \cup {RoleMap[i].variations[j] :
                                            j \in 1..Len(RoleMap[i].variations)} :
            Includes(ToLowerCase(role), word)}

\* C19 as stated: a role that is a key of the table gets the synonyms of that
\* key, and every role that is not a key gets exactly the literal role.
C19_NonKeyIsLiteral ==
    (args.fn = "getRoleVariations" /\ ret # NULL) =>
        IF EntriesKeyed(args.role) # {}
        THEN \E i \in EntriesKeyed(args.role) : ret.value = RoleMap[i].variations
        ELSE ret.value = <<args.role>>

\* C19 amended: a role whose lowercase form contains no key and no variation
\* of the table gets exactly the literal role; a role that contains a key or
\* a variation gets the synonyms of the first entry of the table it contains
\* a word of.
C19_NoHitIsLiteral ==
    (args.fn = "getRoleVariations" /\ ret # NULL) =>
        LET within == EntriesWithin(args.role)
        IN  IF within = {}
            THEN ret.value = <<args.role>>
            ELSE ret.value = RoleMap[CHOOSE i \in within : \A j \in within : i <= j].variations

\* C19 witness: the variations of a role that is no key but contains a
\* variation, and so gets a synonym set.
C19_Witness ==
    /\ args.fn = "getRoleVariations"
    /\ args.role = "PM"
    /\ ret # NULL
    /\ Len(ret.value) = 4

\* C18: every BookingRecord carries the charge and the title of a service of
\* its expert's profile that is live and costs at most max_price, so with
\* max_price = 0 every record has price 0; and a run over the single
\* candidate dee (one FREE live service) in which no external call fails and
\* a slot is found ends with booked = 1 and one record of price 0.
C18_PriceWithinMax ==
    /\ \A i \in DOMAIN result.bookings :
        LET b == result.bookings[i]
            p == ProfileOf(b.expert_username)
        IN  /\ b.session_price <= options.max_price
            /\ options.max_price = 0 => b.session_price = 0
            /\ \E j \in KeptServices(p, options.max_price) :
                /\ p.services[j].charge = b.session_price
                /\ p.services[j].title = b.service_title
    /\ (/\ pc = "done"
        /\ searchResults = <<[username |-> "dee", name |-> "Dee"]>>
        /\ options.max_price = 0
        /\ error = "none"
        /\ failure \in {"none", "filterCandidateServices"}) =>
            /\ response.status = 200
            /\ response.booked = 1
            /\ Len(response.bookings) = 1
            /\ response.bookings[1].session_price = 0
            /\ response.bookings[1].expert_username = "dee"

\* C18 witness: the reply of the run over the single candidate dee with
\* max_price 0.
C18_Witness ==
    /\ pc = "done"
    /\ searchResults = <<[username |-> "dee", name |-> "Dee"]>>
    /\ options # NULL
    /\ options.max_price = 0
    /\ response.status = 200
    /\ response.booked = 1
    /\ response.bookings[1].session_price = 0

\* The run is over, the loop went past the last candidate and fewer than
\* num_calls bookings were made.
ExhaustedShort ==
    /\ pc = "done"
    /\ options # NULL
    /\ idx > Len(searchResults)
    /\ result.booked < options.num_calls

\* The handler answered with the accumulated result, and nothing was thrown.
NormalOutcome ==
    /\ error = "none"
    /\ response = [status |-> 200, booked |-> result.booked,
                   bookings |-> result.bookings,
                   skipped_candidates |-> result.errors]

\* C20: every request is eventually answered; and once a run has reached its
\* candidate loop, ending past the last candidate with fewer than num_calls
\* bookings (none included) is answered with the accumulated result as a
\* success, never as an error.
C20_TerminatesNormally ==
    /\ <>(pc = "done")
    /\ [](pc = "loop" => [](ExhaustedShort => NormalOutcome))

\* C20 witness: the reply of a run that asked for two bookings, went through
\* both of its candidates and booked one.
C20_Witness ==
    /\ pc = "done"
    /\ userDetails # NULL
    /\ options.num_calls = 2
    /\ Len(searchResults) = 2
    /\ idx = 3
    /\ result.booked = 1
    /\ response.status = 200
    /\ response.booked = 1

\* The steps of the loop body after the qualification of the candidate.
BookingSteps == CandidatePcs \ {"fetchUserProfile"}

\* The qualifying services of username u under the request's criteria.
QualifyingServicesOf(u) ==
    FilterCandidateServices(ProfileOf(u), options.target_company,
                            options.target_role, options.max_price)

\* C21: for every candidate of the run, the enrichment reports it as matched
\* only with a non-empty qualifyingServices list; a candidate whose list is
\* empty is not reported as matched, is never the candidate of a booking
\* step, never has its profile page opened and never gets a booking; and a
\* booking step always has a service to book.
C21_MatchedHasServices ==
    /\ options # NULL =>
        \A i \in DOMAIN searchResults :
            LET u == searchResults[i].username
                e == EnrichedExpert(searchResults[i], QualifyingServicesOf(u))
            IN  /\ e.matchesTarget => e.qualifyingServices # <<>>
                /\ e.qualifyingServices = <<>> =>
                    /\ ~e.matchesTarget
                    /\ pc \in BookingSteps => idx # i
                    /\ \A k \in DOMAIN calls.open : calls.open[k] # u
                    /\ \A k \in DOMAIN result.bookings :
                            result.bookings[k].expert_username # u
    /\ pc \in BookingSteps =>
        /\ serviceToBook # NULL
        /\ serviceToBook = QualifyingServicesOf(Expert.username)[1]

\* C21 witness: a run over a candidate without qualifying services (cy) and
\* a matched one, ended with one booking.
C21_Witness ==
    /\ pc = "done"
    /\ Len(searchResults) = 2
    /\ searchResults[1].username = "cy"
    /\ QualifyingServicesOf("cy") = <<>>
    /\ result.booked = 1
    /\ result.bookings[1].expert_username = searchResults[2].username

\* The search results the loop has entered so far.
Entered == SubSeq(searchResults, 1, IF idx > Len(searchResults) THEN Len(searchResults) ELSE idx)

\* C22: in a booking step the service to book is the first service of the
\* candidate's profile, in profile order, that is live and costs at most
\* max_price; and each username has had at most one service click per
\* search result entered for it, so a failed attempt is never followed by
\* another service of the same candidate.
C22_FirstServiceOnly ==
    /\ pc \in BookingSteps =>
        LET p == ProfileOf(Expert.username)
            kept == KeptServices(p, options.max_price)
        IN  /\ kept # {}
            /\ \E j \in kept :
                /\ \A k \in kept : j <= k
                /\ serviceToBook.serviceId = p.services[j].id
                /\ serviceToBook.serviceTitle = p.services[j].title
    /\ \A u \in Usernames :
        Count(calls.clickService, u) <= Count([i \in DOMAIN Entered |-> Entered[i].username], u)

\* C22 witness: the attempt for ann, who has two qualifying services, failed
\* at the submit, and the loop is at the next candidate after one service
\* click.
C22_Witness ==
    /\ pc = "loop"
    /\ failure = "submit"
    /\ idx = 2
    /\ searchResults[1].username = "ann"
    /\ Len(QualifyingServicesOf("ann")) = 2
    /\ calls.clickService = <<"ann">>

RECURSIVE IsSubsequence(_, _)
\* Whether a is b with some positions left out, the others in b's order.
IsSubsequence(a, b) ==
    IF a = <<>> THEN TRUE
    ELSE IF b = <<>> THEN FALSE
    ELSE IF Head(a) = Head(b) THEN IsSubsequence(Tail(a), Tail(b))
    ELSE IsSubsequence(a, Tail(b))

\* The usernames of the search results, in the order returned.
ResultNames == [i \in DOMAIN searchResults |-> searchResults[i].username]

\* C23: the profile fetches are the first idx - 1 or idx search results in
\* the order returned, one fetch each; every later step (profile page,
\* service click, slot click, submit) is taken for fetched candidates only
\* and in that order, so no step of a candidate precedes a step of an
\* earlier one; and the bookings and the skipped list name their candidates
\* in the order of the search results.
C23_SequentialInOrder ==
    /\ Len(calls.fetch) \in {idx - 1, idx}
    /\ Len(calls.fetch) <= Len(ResultNames)
    /\ calls.fetch = SubSeq(ResultNames, 1, Len(calls.fetch))
    /\ pc \in BookingSteps => Len(calls.fetch) = idx
    /\ IsSubsequence(calls.open, calls.fetch)
    /\ IsSubsequence(calls.clickService, calls.open)
    /\ IsSubsequence(calls.clickSlot, calls.clickService)
    /\ IsSubsequence(calls.submit, calls.clickSlot)
    /\ IsSubsequence([i \in DOMAIN result.bookings |-> result.bookings[i].expert_username],
                     calls.submit)
    /\ IsSubsequence([i \in DOMAIN result.errors |-> result.errors[i].username],
                     calls.fetch)

\* C23 witness: a run over two different candidates, both skipped, with the
\* skipped list in the order of the search.
C23_Witness ==
    /\ pc = "done"
    /\ Len(searchResults) = 2
    /\ searchResults[1].username # searchResults[2].username
    /\ Len(result.errors) = 2
    /\ result.errors[1].username = searchResults[1].username
    /\ result.errors[2].username = searchResults[2].username

\* C24: the booked counter equals the length of the bookings list, no
\* username is both in the bookings list and in the skipped list, and a
\* success reply carries that counter and that list.
C24_CounterAndListsAgree ==
    /\ result.booked = Len(result.bookings)
    /\ \A i \in DOMAIN result.bookings : \A j \in DOMAIN result.errors :
            result.bookings[i].expert_username # result.errors[j].username
    /\ (pc = "done" /\ response.status = 200) =>
        /\ response.booked = result.booked
        /\ response.bookings = result.bookings

\* C25: closing the session leaves both handles null; closing it again
\* changes nothing; a launch after a close starts a new browser; and after
\* the run's close, the handler's close of the same session changes nothing,
\* so a launched browser is closed exactly once and a context at most once.
C25_CloseIdempotent ==
    /\ LET c == TopmateBrowserClose(browser)
       IN  /\ ~c.browser
           /\ ~c.context
           /\ c.openBrowsers = 0
           /\ c.openContexts = 0
           /\ TopmateBrowserClose(c) = c
           /\ Launch(c).browser
           /\ Launch(c).launches = c.launches + 1
           /\ Launch(c).openBrowsers = 1
    /\ pc \in {"handlerFinally", "done"} =>
        /\ TopmateBrowserClose(browser) = browser
        /\ browser.browserCloses = browser.launches
        /\ browser.contextCloses <= browser.browserCloses

\* C25 witness: a request answered after both closes of a session whose
\* browser and context were open.
C25_Witness ==
    /\ pc = "done"
    /\ browser.launches = 1
    /\ browser.browserCloses = 1
    /\ browser.contextCloses = 1
    /\ ~browser.browser
    /\ ~browser.context

\* The usernames of the candidates of request r.
NamesOf(r) ==
    {requests[r].searchResults[i].username : i \in DOMAIN requests[r].searchResults}

\* What C26 asks of one step: a step of request r leaves every other
\* request, its result and its browser session as they were; after it, a
\* request that is searching or looping has its own session open, the
\* bookings and skip entries of a request name candidates of that request
\* only, and a success reply carries the result of its own run.
C26_Step ==
    /\ \A r \in Runs :
        requests'[r] # requests[r] =>
            \A q \in Runs \ {r} :
                /\ requests'[q] = requests[q]
                /\ sessions'[BrowserOf(q)] = sessions[BrowserOf(q)]
    /\ \A r \in Runs :
        LET q == requests'[r]
        IN  /\ q.pc \in {"search", "loop"} =>
                /\ sessions'[BrowserOf(r)].browser
                /\ sessions'[BrowserOf(r)].context
            /\ \A i \in DOMAIN q.result.bookings :
                    q.result.bookings[i].expert_username \in NamesOf(r)'
            /\ \A i \in DOMAIN q.result.errors :
                    q.result.errors[i].username \in NamesOf(r)'
            /\ (q.pc = "done" /\ q.error = "none") =>
                /\ q.response.booked = q.result.booked
                /\ q.response.bookings = q.result.bookings
                /\ q.response.skipped_candidates = q.result.errors

\* C26: overlapping requests are independent, step by step.
C26_RunsIndependent == [][C26_Step]_vars

\* C26 witness: request 1 has been answered with its booking of ann and its
\* session is closed, while request 2, over dee, is still in its loop with
\* its session open.
C26_Witness ==
    /\ requests # <<>>
    /\ requests[1].pc = "done"
    /\ requests[1].error = "none"
    /\ requests[1].response.booked = 1
    /\ requests[1].response.bookings[1].expert_username = "ann"
    /\ ~sessions[BrowserOf(1)].browser
    /\ requests[2].pc = "loop"
    /\ NamesOf(2) = {"dee"}
    /\ sessions[BrowserOf(2)].browser

====
